---- MODULE Spec2Model ----
(***************************************************************************)
(* Document model of the Hunter Tab Maker editor (src/App.tsx): the blocks *)
(* of a tablature, the edit handlers, the snapshot undo/redo history and   *)
(* the text export/import.                                                 *)
(*                                                                         *)
(* Conventions.  Indices held in variables (activeBlockIndex,              *)
(* cursorPosition, selection, string indices) are 0-based as in the code;  *)
(* TLA+ sequences are 1-based, so element i of a JS array a is a[i+1].     *)
(* A string is a sequence of one-character strings ("24" is <<"2","4">>).  *)
(* A cell is <<>> (null) or <<label>> (a TabNote with that fret label).    *)
(* A column is a 6-tuple of cells; a JS array slot that holds no column is *)
(* Hole (an empty slot of a sparse array) or NullCol (undefined / null).    *)
(***************************************************************************)
EXTENDS Integers, Sequences, FiniteSets, TLC

\* ------------------------------------------------------------------------
\* Program constants
\* ------------------------------------------------------------------------
HISTORY_LIMIT == 15

NUM_STRINGS == 6

\* ------------------------------------------------------------------------
\* Bounds of the model
\* ------------------------------------------------------------------------
\* Number of columns of a fresh block.  The source uses 40; no handler
\* compares against that number, so the grid is scaled down.
INITIAL_COLS == 2

\* Number of handler invocations explored by Spec (the handlers of the
\* toolbar, the block list, the grid and the text codec; the click that pads
\* a title is explored by SpecTitle).
MaxOps == 3

\* Number of handler invocations explored by SpecDoc (the document
\* operations with undo and redo).
MaxDocOps == 5

\* Number of handler invocations explored by SpecHistory (one edit handler
\* with undo and redo): enough to overflow the history and undo it all.
MaxHistOps == 33

\* Number of handler invocations explored by SpecInput (digit entry and
\* cursor moves).
MaxInputOps == 3

\* Number of handler invocations explored by SpecClip (selection, clipboard
\* and the edits around them).
MaxClipOps == 5

\* Number of handler invocations explored by SpecSel (selection, cut and
\* the operations that change the shape of the document).
MaxSelOps == 5

\* Number of handler invocations explored by SpecImport (import of files of
\* several parts, edits, undo).
MaxImportOps == 3

\* Number of handler invocations explored by SpecBlocks (titled blocks with
\* content that are added, duplicated, moved, removed and cleared).
MaxBlockOps == 5

\* Number of handler invocations explored by SpecRemove (blocks added and
\* removed, with undo, redo and a change of the active block in between).
MaxRemoveOps == 7

\* Number of handler invocations explored by SpecTitle (titles typed and
\* padded by a click, export, import of the exported file).
MaxTitleOps == 4

\* ------------------------------------------------------------------------
\* Small helpers
\* ------------------------------------------------------------------------
Min(a, b) == IF a < b THEN a ELSE b

Max(a, b) == IF a > b THEN a ELSE b

Last(s) == s[Len(s)]

ButLast(s) == SubSeq(s, 1, Len(s) - 1)

\* Optional values: null is <<>>, a present value v is <<v>>.
Null == <<>>

Some(v) == <<v>>

\* ------------------------------------------------------------------------
\* Strings and numbers
\* ------------------------------------------------------------------------
Digits == <<"0", "1", "2", "3", "4", "5", "6", "7", "8", "9">>

HexLetters == <<"a", "b", "c", "d", "e", "f">>

HexCapitals == <<"A", "B", "C", "D", "E", "F">>

\* White space of String.prototype.trim, parseInt and the regex class \s.
WhiteSpace == {" ", "\t", "\r", "\n", "\f"}

\* The value of character ch as a digit of the radix, or -1.
DigitVal(ch, radix) ==
    IF \E d \in 1..10 : Digits[d] = ch
    THEN (CHOOSE d \in 1..10 : Digits[d] = ch) - 1
    ELSE IF radix = 16 /\ \E d \in 1..6 : HexLetters[d] = ch \/ HexCapitals[d] = ch
    THEN (CHOOSE d \in 1..6 : HexLetters[d] = ch \/ HexCapitals[d] = ch) + 9
    ELSE -1

RECURSIVE SkipSpace(_)
SkipSpace(s) == IF s # <<>> /\ Head(s) \in WhiteSpace THEN SkipSpace(Tail(s)) ELSE s

RECURSIVE SkipSpaceEnd(_)
SkipSpaceEnd(s) ==
    IF s # <<>> /\ Last(s) \in WhiteSpace THEN SkipSpaceEnd(ButLast(s)) ELSE s

\* String.prototype.trim
Trim(s) == SkipSpaceEnd(SkipSpace(s))

\* The longest prefix of s made of digits of the radix: <<count, value>>.
RECURSIVE DigitRun(_, _, _, _)
DigitRun(s, radix, count, acc) ==
    IF s # <<>> /\ DigitVal(Head(s), radix) >= 0
    THEN DigitRun(Tail(s), radix, count + 1, acc * radix + DigitVal(Head(s), radix))
    ELSE <<count, acc>>

\* parseInt(s) without a radix: Null for NaN, Some(n) otherwise.  Leading
\* white space is skipped, a sign is read, "0x" selects radix 16, and the
\* digits are read up to the first character that is none.
parseInt(str) ==
    LET s0 == SkipSpace(str)
        neg == s0 # <<>> /\ Head(s0) = "-"
        s1 == IF s0 # <<>> /\ Head(s0) \in {"-", "+"} THEN Tail(s0) ELSE s0
        hex == Len(s1) >= 2 /\ s1[1] = "0" /\ s1[2] \in {"x", "X"}
        run == IF hex THEN DigitRun(Tail(Tail(s1)), 16, 0, 0) ELSE DigitRun(s1, 10, 0, 0)
    IN  IF run[1] = 0 THEN Null
        ELSE Some(IF neg THEN 0 - run[2] ELSE run[2])

\* Number.prototype.toString of an integer.
RECURSIVE toString(_)
toString(n) ==
    IF n < 0 THEN <<"-">> \o toString(0 - n)
    ELSE IF n < 10 THEN <<Digits[n + 1]>>
    ELSE toString(n \div 10) \o <<Digits[(n % 10) + 1]>>

\* ------------------------------------------------------------------------
\* Grid primitives
\* ------------------------------------------------------------------------
NoNote == <<>>

Note(fret) == <<fret>>

\* Array(6).fill(null)
EmptyCol == [s \in 1..NUM_STRINGS |-> NoNote]

\* Array(6).fill({ fret: '|' })
BarCol == [s \in 1..NUM_STRINGS |-> Note(<<"|">>)]

\* An empty slot of a sparse JS array (skipped by map / forEach).
Hole == <<>>

\* A slot holding undefined or null (what a spread or JSON makes of a hole).
NullCol == <<NoNote>>

IsCol(c) == Len(c) = NUM_STRINGS

\* [...arr] and JSON.stringify both turn the empty slots of arr into
\* undefined / null.
Densify(cols) == [c \in 1..Len(cols) |-> IF cols[c] = Hole THEN NullCol ELSE cols[c]]

\* arr[i] = v for a 0-based i, which may lie beyond the end of arr: the
\* array is extended and the slots in between stay empty.
SetAt(cols, i, v) ==
    IF i < Len(cols)
    THEN [cols EXCEPT ![i + 1] = v]
    ELSE cols \o [k \in 1..(i - Len(cols)) |-> Hole] \o <<v>>

\* arr.splice(pos, 0, ...ins): pos is clamped to the length.
Splice(cols, pos, ins) ==
    LET p == Min(pos, Len(cols))
    IN  SubSeq(cols, 1, p) \o ins \o SubSeq(cols, p + 1, Len(cols))

\* arr.slice(from, to): 0-based, to exclusive, both clamped.
Slice(cols, from, to) == SubSeq(cols, from + 1, Min(to, Len(cols)))

NewBlock(id) ==
    [id |-> id,
     columns |-> [c \in 1..INITIAL_COLS |-> EmptyCol],
     cursorPosition |-> 0,
     title |-> <<>>]

\* ------------------------------------------------------------------------
\* JSON snapshots
\* ------------------------------------------------------------------------
\* JSON.stringify(blocks): the JSON text, represented by the value it
\* denotes.  Empty slots and undefined columns are written as null.
JSONStringify(bs) ==
    [i \in 1..Len(bs) |-> [bs[i] EXCEPT !.columns = Densify(bs[i].columns)]]

\* JSON.parse of a text produced by JSONStringify.
JSONParse(text) == text

\* JSON.parse(JSON.stringify(cols)) of a column array.
CloneCols(cols) == Densify(cols)

\* ------------------------------------------------------------------------
\* State
\* ------------------------------------------------------------------------
VARIABLES
    blocks,            \* useState<TabBlock[]>
    activeBlockIndex,  \* useState(0)
    lastStringIndex,   \* useState(0)
    selection,         \* Null or Some(<<start, end>>)
    clipboard,         \* Null or Some(columns)
    history,           \* undo stack of JSON snapshots
    redoStack,         \* redo stack of JSON snapshots
    dragStart,         \* TabEditor's drag state: Null or Some(<<block id, column>>)
    pending,           \* file reads in flight: Null or Some([snap, text])
    exported,          \* the last exported file: Null or Some(text)
    nextId,            \* source of fresh block identifiers
    crashed,           \* an exception escaped a render: the tree is unmounted
    op,                \* the handler that ran last and its outcome
    budget,            \* handler invocations left to explore
    log,               \* pre-states of the edits since the last undo/redo run
    undos,             \* undos carried out since the last edit
    redos,             \* redos carried out since the last undo
    top                \* blocks before the first undo of the current run

doc == <<blocks, activeBlockIndex, lastStringIndex, selection, clipboard>>

stacks == <<history, redoStack>>

env == <<dragStart, pending, exported, nextId>>

ghost == <<log, undos, redos, top>>

vars == <<doc, stacks, env, crashed, op, budget, ghost>>

\* The render of the component tree: TabEditor maps over the columns of
\* every block and reads col[sIdx]; map skips empty slots, and an
\* undefined / null column throws.
RenderThrows(bs) ==
    \E i \in 1..Len(bs) : \E c \in 1..Len(bs[i].columns) : bs[i].columns[c] = NullCol

InitWith(n) ==
    /\ blocks = <<NewBlock(1)>>
    /\ activeBlockIndex = 0
    /\ lastStringIndex = 0
    /\ selection = Null
    /\ clipboard = Null
    /\ history = <<>>
    /\ redoStack = <<>>
    /\ dragStart = Null
    /\ pending = Null
    /\ exported = Null
    /\ nextId = 2
    /\ crashed = FALSE
    /\ op = "init"
    /\ budget = n
    /\ log = <<>>
    /\ undos = 0
    /\ redos = 0
    /\ top = <<>>

Init == InitWith(MaxOps)

\* ------------------------------------------------------------------------
\* Bookkeeping shared by the handlers
\* ------------------------------------------------------------------------
\* The tree is mounted and the exploration budget is not used up.  Every
\* counter the code leaves unbounded (the cursor, fret numbers, stack
\* contents, identifiers) grows only with handler invocations.
CanRun == ~crashed /\ budget > 0

\* A click handler can run: no drag is in progress (the mouse button is held
\* down during a drag).
CanClick == CanRun /\ dragStart = Null

Tick(name) == op' = name /\ budget' = budget - 1

\* Ghost: an edit (recorded by saveState, or changing the blocks) extends
\* the log, or starts a new one when undos or redos came before it.
LogEdit(rec) ==
    LET e == [pre |-> blocks, rec |-> rec, chg |-> blocks' # blocks]
    IN  IF rec \/ e.chg
        THEN /\ log' = IF undos > 0 \/ redos > 0 THEN <<e>> ELSE Append(log, e)
             /\ undos' = 0
             /\ redos' = 0
             /\ top' = <<>>
        ELSE UNCHANGED ghost

\* An exception thrown inside a setBlocks updater escapes the render: React
\* unmounts the tree; the document is left as it was.
Crash(name) ==
    /\ crashed' = TRUE
    /\ Tick(name)
    /\ UNCHANGED <<blocks, stacks, ghost>>

\* ------------------------------------------------------------------------
\* Undo / redo engine
\* ------------------------------------------------------------------------
\* saveState that refuses a new snapshot once the stack is full.
saveStateKeepsOldest(hist, currentBlocks) ==
    LET next == Append(hist, JSONStringify(currentBlocks))
    IN  IF Len(next) > HISTORY_LIMIT THEN hist ELSE next

\* saveState with no limit on the depth of the stack.
saveStateUnbounded(hist, currentBlocks) == Append(hist, JSONStringify(currentBlocks))

saveState(hist, currentBlocks) ==
    LET next == Append(hist, JSONStringify(currentBlocks))
    IN  IF Len(next) > HISTORY_LIMIT THEN Tail(next) ELSE next

\* handleUndo that pushes the current blocks onto the redo stack even when
\* there is nothing to undo.
handleUndoAlwaysPushesRedo ==
    /\ CanClick
    /\ Tick("undo")
    /\ IF Len(history) > 0
       THEN LET restored == JSONParse(Last(history))
            IN  /\ redoStack' = Append(redoStack, JSONStringify(blocks))
                /\ blocks' = restored
                /\ history' = ButLast(history)
                /\ activeBlockIndex' =
                       IF activeBlockIndex >= Len(restored)
                       THEN Max(0, Len(restored) - 1)
                       ELSE activeBlockIndex
                /\ top' = IF undos = 0 \/ redos > 0 THEN blocks ELSE top
                /\ undos' = IF redos > 0 THEN 1 ELSE undos + 1
                /\ redos' = 0
                /\ log' = IF redos > 0 THEN <<>> ELSE log
       ELSE /\ redoStack' = Append(redoStack, JSONStringify(blocks))
            /\ UNCHANGED <<blocks, history, activeBlockIndex, ghost>>
    /\ crashed' = RenderThrows(blocks')
    /\ UNCHANGED <<lastStringIndex, selection, clipboard, env>>

handleUndo ==
    /\ CanClick
    /\ Tick("undo")
    /\ IF Len(history) > 0
       THEN LET restored == JSONParse(Last(history))
            IN  /\ redoStack' = Append(redoStack, JSONStringify(blocks))
                /\ blocks' = restored
                /\ history' = ButLast(history)
                /\ activeBlockIndex' =
                       IF activeBlockIndex >= Len(restored)
                       THEN Max(0, Len(restored) - 1)
                       ELSE activeBlockIndex
                /\ top' = IF undos = 0 \/ redos > 0 THEN blocks ELSE top
                /\ undos' = IF redos > 0 THEN 1 ELSE undos + 1
                /\ redos' = 0
                /\ log' = IF redos > 0 THEN <<>> ELSE log
       ELSE UNCHANGED <<blocks, history, redoStack, activeBlockIndex, ghost>>
    /\ crashed' = RenderThrows(blocks')
    /\ UNCHANGED <<lastStringIndex, selection, clipboard, env>>

handleRedo ==
    /\ CanClick
    /\ Tick("redo")
    /\ IF Len(redoStack) > 0
       THEN /\ history' = Append(history, JSONStringify(blocks))
            /\ blocks' = JSONParse(Last(redoStack))
            /\ redoStack' = ButLast(redoStack)
            /\ redos' = redos + 1
       ELSE UNCHANGED <<blocks, history, redoStack, redos>>
    /\ crashed' = RenderThrows(blocks')
    /\ UNCHANGED <<activeBlockIndex, lastStringIndex, selection, clipboard, env,
                   log, undos, top>>

\* The block the updater of updateActiveBlock is applied to.
ActiveBlock == blocks[activeBlockIndex + 1]

\* updateActiveBlock(updater): saveState(blocks), then the updater is applied
\* to the block at activeBlockIndex.  updated is the block the updater
\* returns for ActiveBlock and throws tells whether the updater throws on it;
\* it throws on undefined (an index out of range).  Leaves activeBlockIndex,
\* lastStringIndex, selection, clipboard and env to the caller.
updateActiveBlock(updated, throws, name) ==
    IF activeBlockIndex >= Len(blocks) \/ throws
    THEN Crash(name)
    ELSE /\ history' = saveState(history, blocks)
         /\ redoStack' = <<>>
         /\ blocks' = [blocks EXCEPT ![activeBlockIndex + 1] = updated]
         /\ crashed' = RenderThrows(blocks')
         /\ Tick(name)
         /\ LogEdit(TRUE)

\* The cursor buttons of a block header and "Avancar Cursor"; all act on the
\* active block.
CursorLeft ==
    /\ CanClick
    /\ LET b == ActiveBlock IN updateActiveBlock(
           [b EXCEPT !.cursorPosition = Max(0, b.cursorPosition - 1)],
           FALSE, "cursorLeft")
    /\ UNCHANGED <<activeBlockIndex, lastStringIndex, selection, clipboard, env>>

CursorRight ==
    /\ CanClick
    /\ LET b == ActiveBlock IN updateActiveBlock(
           [b EXCEPT !.cursorPosition = b.cursorPosition + 1],
           FALSE, "cursorRight")
    /\ UNCHANGED <<activeBlockIndex, lastStringIndex, selection, clipboard, env>>

\* ------------------------------------------------------------------------
\* Note entry
\* ------------------------------------------------------------------------
\* The columns addNote and insertBarLine work on: a copy of the block's
\* columns, one empty column pushed when the cursor is on or past the last.
GrownCols(block) ==
    LET newCols == Densify(block.columns)
    IN  IF block.cursorPosition >= Len(newCols) - 1
        THEN Append(newCols, EmptyCol)
        ELSE newCols

\* [...newCols[cursorPosition]] throws when that slot holds no column.
addNoteThrows(block) ==
    \/ block.cursorPosition >= Len(GrownCols(block))
    \/ ~IsCol(GrownCols(block)[block.cursorPosition + 1])

addNoteUpdater(block, stringIndex, fretValue, autoAdvance) ==
    LET newCols == GrownCols(block)
        newCol == [newCols[block.cursorPosition + 1] EXCEPT ![stringIndex + 1] = Note(fretValue)]
    IN  [block EXCEPT
            !.columns = [newCols EXCEPT ![block.cursorPosition + 1] = newCol],
            !.cursorPosition = IF autoAdvance THEN block.cursorPosition + 1
                               ELSE block.cursorPosition]

addNote(stringIndex, fretValue, autoAdvance, name) ==
    /\ CanClick
    /\ LET b == ActiveBlock IN updateActiveBlock(
           addNoteUpdater(b, stringIndex, fretValue, autoAdvance),
           addNoteThrows(b), name)
    /\ lastStringIndex' = stringIndex
    /\ UNCHANGED <<activeBlockIndex, selection, clipboard, env>>

\* Inputs of the note-entry handlers explored by the model.
StringInputs == {0, 5}

FretInputs == {0, 12}

SymbolInputs == {<<"h">>}

\* Fretboard: onFretClick(s, f) => addNote(s, f.toString())
FretClick == \E s \in StringInputs, f \in FretInputs : addNote(s, toString(f), TRUE, "fretClick")

\* A technique button: addNote(lastStringIndex, s.label)
SymbolClick == \E l \in SymbolInputs : addNote(lastStringIndex, l, TRUE, "symbolClick")

\* "Limpar Nota": addNote(lastStringIndex, '-', false)
ClearNote == addNote(lastStringIndex, <<"-">>, FALSE, "clearNote")

\* addNote called with a single digit as the label, advancing or not: the
\* only entry point a digit keystroke has.  The handler name records the
\* digit.
DigitInputs == {<<"2">>, <<"4">>, <<"5">>}

DigitName(d) == IF d = <<"2">> THEN "digit2" ELSE IF d = <<"4">> THEN "digit4" ELSE "digit5"

DigitEntry ==
    \E s \in StringInputs, d \in DigitInputs, autoAdvance \in BOOLEAN :
        addNote(s, d, autoAdvance, DigitName(d))

\* ------------------------------------------------------------------------
\* Transpose
\* ------------------------------------------------------------------------
\* note && !isNaN(parseInt(note.fret))
IsNumeric(cell) == cell # NoNote /\ parseInt(cell[1]) # Null

FretOf(cell) == parseInt(cell[1])[1]

\* canTranspose with the comparison off by one.
canTransposeOffByOne(bs, delta) ==
    \A i \in 1..Len(bs) : \A c \in 1..Len(bs[i].columns) :
        IsCol(bs[i].columns[c]) =>
            \A s \in 1..NUM_STRINGS :
                IsNumeric(bs[i].columns[c][s]) => FretOf(bs[i].columns[c][s]) + delta >= -1

canTranspose(bs, delta) ==
    \A i \in 1..Len(bs) : \A c \in 1..Len(bs[i].columns) :
        IsCol(bs[i].columns[c]) =>
            \A s \in 1..NUM_STRINGS :
                IsNumeric(bs[i].columns[c][s]) => FretOf(bs[i].columns[c][s]) + delta >= 0

transposeCell(cell, delta) ==
    IF IsNumeric(cell) THEN Note(toString(FretOf(cell) + delta)) ELSE cell

\* transposeBlocks that shifts the notes of the active block only.
transposeActiveOnly(bs, delta) ==
    [i \in 1..Len(bs) |->
        IF i # activeBlockIndex + 1 THEN bs[i]
        ELSE [bs[i] EXCEPT !.columns =
                [c \in 1..Len(bs[i].columns) |->
                    IF IsCol(bs[i].columns[c])
                    THEN [s \in 1..NUM_STRINGS |-> transposeCell(bs[i].columns[c][s], delta)]
                    ELSE bs[i].columns[c]]]]

transposeBlocks(bs, delta) ==
    [i \in 1..Len(bs) |->
        [bs[i] EXCEPT !.columns =
            [c \in 1..Len(bs[i].columns) |->
                IF IsCol(bs[i].columns[c])
                THEN [s \in 1..NUM_STRINGS |-> transposeCell(bs[i].columns[c][s], delta)]
                ELSE bs[i].columns[c]]]]

transpose(delta) ==
    /\ CanClick
    /\ IF ~canTranspose(blocks, delta)
       THEN /\ Tick(IF delta > 0 THEN "transposeUpRejected" ELSE "transposeDownRejected")
            /\ UNCHANGED <<blocks, stacks, crashed, ghost>>
       ELSE /\ Tick(IF delta > 0 THEN "transposeUp" ELSE "transposeDown")
            /\ history' = saveState(history, blocks)
            /\ redoStack' = <<>>
            /\ blocks' = transposeBlocks(blocks, delta)
            /\ crashed' = RenderThrows(blocks')
            /\ LogEdit(TRUE)
    /\ UNCHANGED <<activeBlockIndex, lastStringIndex, selection, clipboard, env>>

\* The "+" and "-" buttons.
Transpose == \E delta \in {1, -1} : transpose(delta)

\* ------------------------------------------------------------------------
\* Structure: bar line, space
\* ------------------------------------------------------------------------
insertBarLine ==
    /\ CanClick
    /\ LET b == ActiveBlock IN updateActiveBlock(
           [b EXCEPT
                          !.columns = SetAt(GrownCols(b), b.cursorPosition, BarCol),
                          !.cursorPosition = b.cursorPosition + 1],
           FALSE, "insertBarLine")
    /\ UNCHANGED <<activeBlockIndex, lastStringIndex, selection, clipboard, env>>

insertSpace ==
    /\ CanClick
    /\ LET b == ActiveBlock IN updateActiveBlock(
           [b EXCEPT
                          !.columns = Splice(Densify(b.columns),
                                             IF selection # Null THEN selection[1][1]
                                             ELSE b.cursorPosition,
                                             <<EmptyCol>>),
                          !.cursorPosition = IF selection # Null THEN b.cursorPosition
                                             ELSE b.cursorPosition + 1],
           FALSE, "insertSpace")
    /\ UNCHANGED <<activeBlockIndex, lastStringIndex, selection, clipboard, env>>

\* ------------------------------------------------------------------------
\* Clipboard
\* ------------------------------------------------------------------------
\* handleCopy throws (in the event handler, nothing is updated) when the
\* active index is out of range: blocks[activeBlockIndex] is undefined.
copyThrows == activeBlockIndex >= Len(blocks)

copiedRange ==
    CloneCols(Slice(blocks[activeBlockIndex + 1].columns,
                    selection[1][1], selection[1][2] + 1))

handleCopy ==
    /\ CanClick
    /\ IF selection = Null THEN Tick("copyNoSelection") /\ UNCHANGED clipboard
       ELSE IF copyThrows THEN Tick("copyThrew") /\ UNCHANGED clipboard
       ELSE Tick("copy") /\ clipboard' = Some(copiedRange)
    /\ UNCHANGED <<blocks, activeBlockIndex, lastStringIndex, selection, stacks, env,
                   crashed, ghost>>

\* for (i = selection[0]; i <= selection[1]; i++) newCols[i] = Array(6).fill(null)
RECURSIVE ClearRange(_, _, _)
ClearRange(cols, i, end) ==
    IF i > end THEN cols ELSE ClearRange(SetAt(cols, i, EmptyCol), i + 1, end)

handleCut ==
    /\ CanClick
    /\ IF selection = Null
       THEN /\ Tick("cutNoSelection")
            /\ UNCHANGED <<blocks, selection, clipboard, stacks, crashed, ghost>>
       ELSE IF copyThrows
       THEN /\ Tick("cutThrew")
            /\ UNCHANGED <<blocks, selection, clipboard, stacks, crashed, ghost>>
       ELSE /\ clipboard' = Some(copiedRange)
            /\ LET b == ActiveBlock IN updateActiveBlock(
                   [b EXCEPT !.columns =
                                  ClearRange(Densify(b.columns),
                                             selection[1][1], selection[1][2])],
                   FALSE, "cut")
            /\ selection' = Null
    /\ UNCHANGED <<activeBlockIndex, lastStringIndex, env>>

\* handlePaste that empties the clipboard once its columns are pasted.
handlePasteConsumes ==
    /\ CanClick
    /\ IF clipboard = Null
       THEN /\ Tick("pasteNoClipboard")
            /\ UNCHANGED <<blocks, selection, stacks, crashed, ghost>>
       ELSE /\ LET b == ActiveBlock IN updateActiveBlock(
                   [b EXCEPT
                                  !.columns = Splice(Densify(b.columns), b.cursorPosition,
                                                     clipboard[1]),
                                  !.cursorPosition = b.cursorPosition + Len(clipboard[1])],
                   FALSE, "paste")
            /\ selection' = Null
    /\ clipboard' = IF clipboard = Null THEN clipboard ELSE Null
    /\ UNCHANGED <<activeBlockIndex, lastStringIndex, env>>

\* handlePaste that leaves the cursor where it was.
handlePasteKeepsCursor ==
    /\ CanClick
    /\ IF clipboard = Null
       THEN /\ Tick("pasteNoClipboard")
            /\ UNCHANGED <<blocks, selection, stacks, crashed, ghost>>
       ELSE /\ LET b == ActiveBlock IN updateActiveBlock(
                   [b EXCEPT
                                  !.columns = Splice(Densify(b.columns), b.cursorPosition,
                                                     clipboard[1])],
                   FALSE, "paste")
            /\ selection' = Null
    /\ UNCHANGED <<activeBlockIndex, lastStringIndex, clipboard, env>>

handlePaste ==
    /\ CanClick
    /\ IF clipboard = Null
       THEN /\ Tick("pasteNoClipboard")
            /\ UNCHANGED <<blocks, selection, stacks, crashed, ghost>>
       ELSE /\ LET b == ActiveBlock IN updateActiveBlock(
                   [b EXCEPT
                                  !.columns = Splice(Densify(b.columns), b.cursorPosition,
                                                     clipboard[1]),
                                  !.cursorPosition = b.cursorPosition + Len(clipboard[1])],
                   FALSE, "paste")
            /\ selection' = Null
    /\ UNCHANGED <<activeBlockIndex, lastStringIndex, clipboard, env>>

\* ------------------------------------------------------------------------
\* Block titles
\* ------------------------------------------------------------------------
\* Titles typed into the title field, as explored by the model.
TitleInputs == {<<"A">>, <<>>}

\* handleTitleChange(index, newTitle): no saveState.
handleTitleChange(index, newTitle, name) ==
    /\ CanClick
    /\ Tick(name)
    /\ blocks' = [blocks EXCEPT ![index + 1].title = newTitle]
    /\ crashed' = RenderThrows(blocks')
    /\ LogEdit(FALSE)
    /\ UNCHANGED <<activeBlockIndex, lastStringIndex, selection, clipboard, stacks, env>>

TitleChange ==
    \E index \in 0..(Len(blocks) - 1), newTitle \in TitleInputs :
        handleTitleChange(index, newTitle, "titleChange")

\* The character index a click in the title field falls on:
\* Math.floor(clickX / charWidth), on the first character or further right.
TargetIdxInputs == {0, 2}

\* String.prototype.padEnd(targetIdx, " ")
padEndSpaces(s, targetIdx) ==
    IF Len(s) >= targetIdx THEN s ELSE s \o [k \in 1..(targetIdx - Len(s)) |-> " "]

\* handleTitleClick(e, index): a click to the right of the text pads the
\* title with spaces up to the click.
handleTitleClick(index, targetIdx) ==
    LET currentTitle == blocks[index + 1].title
    IN  IF Len(currentTitle) < targetIdx
        THEN handleTitleChange(index, padEndSpaces(currentTitle, targetIdx), "titleClick")
        ELSE /\ CanClick
             /\ Tick("titleClickInside")
             /\ UNCHANGED <<doc, stacks, env, crashed, ghost>>

TitleClick ==
    \E index \in 0..(Len(blocks) - 1), targetIdx \in TargetIdxInputs :
        handleTitleClick(index, targetIdx)

\* ------------------------------------------------------------------------
\* Document operations
\* ------------------------------------------------------------------------
\* The effect shared by the handlers that call saveState(blocks) and then
\* setBlocks(nextBlocks).
Replace(nextBlocks, name) ==
    /\ Tick(name)
    /\ history' = saveState(history, blocks)
    /\ redoStack' = <<>>
    /\ blocks' = nextBlocks
    /\ crashed' = RenderThrows(blocks')
    /\ LogEdit(TRUE)

\* The outer div of a block: onClick={() => setActiveBlockIndex(index)}
SelectBlock ==
    /\ CanClick
    /\ \E index \in 0..(Len(blocks) - 1) :
           /\ index # activeBlockIndex
           /\ activeBlockIndex' = index
    /\ Tick("selectBlock")
    /\ UNCHANGED <<blocks, lastStringIndex, selection, clipboard, stacks, env, crashed,
                   ghost>>

addBlockBelow ==
    /\ CanClick
    /\ Replace(Splice(blocks, activeBlockIndex + 1, <<NewBlock(nextId)>>), "addBlockBelow")
    /\ nextId' = nextId + 1
    /\ activeBlockIndex' = activeBlockIndex + 1
    /\ UNCHANGED <<lastStringIndex, selection, clipboard, dragStart, pending, exported>>

\* The marker appended to the title of a copy.
CopySuffix == <<" ", "(", "C", "o", "p", "i", "a", ")">>

\* duplicateBlock that gives the copy the title of its source unchanged.
duplicateBlockKeepsTitle(index) ==
    LET blockToCopy == blocks[index + 1]
        newBlock == [blockToCopy EXCEPT
                        !.id = nextId,
                        !.columns = CloneCols(blockToCopy.columns)]
    IN  /\ CanClick
        /\ Replace(Splice(blocks, index + 1, <<newBlock>>), "duplicateBlock")
        /\ nextId' = nextId + 1
        /\ activeBlockIndex' = index + 1
        /\ UNCHANGED <<lastStringIndex, selection, clipboard, dragStart, pending, exported>>

duplicateBlock(index) ==
    LET blockToCopy == blocks[index + 1]
        newBlock == [blockToCopy EXCEPT
                        !.id = nextId,
                        !.columns = CloneCols(blockToCopy.columns),
                        !.title = IF blockToCopy.title # <<>>
                                  THEN blockToCopy.title \o CopySuffix
                                  ELSE <<>>]
    IN  /\ CanClick
        /\ Replace(Splice(blocks, index + 1, <<newBlock>>), "duplicateBlock")
        /\ nextId' = nextId + 1
        /\ activeBlockIndex' = index + 1
        /\ UNCHANGED <<lastStringIndex, selection, clipboard, dragStart, pending, exported>>

DuplicateBlock == \E index \in 0..(Len(blocks) - 1) : duplicateBlock(index)

\* The name a move handler invocation is logged under.
MoveName(direction) == IF direction = "up" THEN "moveBlockUp" ELSE "moveBlockDown"

BoundaryName(direction) ==
    IF direction = "up" THEN "moveBlockUpBoundary" ELSE "moveBlockDownBoundary"

\* moveBlock that swaps the blocks and leaves the active index alone.
moveBlockKeepsActive(index, direction) ==
    /\ CanClick
    /\ IF \/ direction = "up" /\ index = 0
          \/ direction = "down" /\ index = Len(blocks) - 1
       THEN /\ Tick(BoundaryName(direction))
            /\ UNCHANGED <<blocks, stacks, crashed, ghost>>
       ELSE LET targetIndex == IF direction = "up" THEN index - 1 ELSE index + 1
            IN  Replace([blocks EXCEPT ![index + 1] = blocks[targetIndex + 1],
                                       ![targetIndex + 1] = blocks[index + 1]],
                        MoveName(direction))
    /\ UNCHANGED <<activeBlockIndex, lastStringIndex, selection, clipboard, env>>

moveBlock(index, direction) ==
    /\ CanClick
    /\ IF \/ direction = "up" /\ index = 0
          \/ direction = "down" /\ index = Len(blocks) - 1
       THEN /\ Tick(BoundaryName(direction))
            /\ UNCHANGED <<blocks, activeBlockIndex, stacks, crashed, ghost>>
       ELSE LET targetIndex == IF direction = "up" THEN index - 1 ELSE index + 1
            IN  /\ Replace([blocks EXCEPT ![index + 1] = blocks[targetIndex + 1],
                                          ![targetIndex + 1] = blocks[index + 1]],
                           MoveName(direction))
                /\ activeBlockIndex' = targetIndex
    /\ UNCHANGED <<lastStringIndex, selection, clipboard, env>>

MoveBlock ==
    \E index \in 0..(Len(blocks) - 1), direction \in {"up", "down"} :
        moveBlock(index, direction)

\* blocks.filter((_, i) => i !== activeBlockIndex)
WithoutBlock(bs, i) ==
    IF i < Len(bs) THEN SubSeq(bs, 1, i) \o SubSeq(bs, i + 2, Len(bs)) ELSE bs

\* removeSelectedBlock without the guard on the last block.
removeSelectedBlockUnguarded ==
    /\ CanClick
    /\ \E confirmed \in BOOLEAN :
        IF ~confirmed
        THEN /\ Tick("removeCancelled")
             /\ UNCHANGED <<blocks, activeBlockIndex, stacks, crashed, ghost>>
        ELSE /\ Replace(WithoutBlock(blocks, activeBlockIndex), "removeBlock")
             /\ activeBlockIndex' = Max(0, activeBlockIndex - 1)
    /\ UNCHANGED <<lastStringIndex, selection, clipboard, env>>

\* window.confirm is the user's choice.
removeSelectedBlock ==
    /\ CanClick
    /\ \E confirmed \in BOOLEAN :
        IF Len(blocks) <= 1
        THEN /\ confirmed
             /\ Tick("removeRejected")
             /\ UNCHANGED <<blocks, activeBlockIndex, stacks, crashed, ghost>>
        ELSE IF ~confirmed
        THEN /\ Tick("removeCancelled")
             /\ UNCHANGED <<blocks, activeBlockIndex, stacks, crashed, ghost>>
        ELSE /\ Replace(WithoutBlock(blocks, activeBlockIndex), "removeBlock")
             /\ activeBlockIndex' = Max(0, activeBlockIndex - 1)
    /\ UNCHANGED <<lastStringIndex, selection, clipboard, env>>

\* handleClearAll that leaves the active index where it was.
handleClearAllKeepsActive ==
    /\ CanClick
    /\ \E confirmed \in BOOLEAN :
        IF ~confirmed
        THEN /\ Tick("clearAllCancelled")
             /\ UNCHANGED <<blocks, selection, stacks, nextId, crashed, ghost>>
        ELSE /\ Replace(<<NewBlock(nextId)>>, "clearAll")
             /\ nextId' = nextId + 1
             /\ selection' = Null
    /\ UNCHANGED <<activeBlockIndex, lastStringIndex, clipboard, dragStart, pending,
                   exported>>

handleClearAll ==
    /\ CanClick
    /\ \E confirmed \in BOOLEAN :
        IF ~confirmed
        THEN /\ Tick("clearAllCancelled")
             /\ UNCHANGED <<blocks, activeBlockIndex, selection, stacks, nextId, crashed,
                            ghost>>
        ELSE /\ Replace(<<NewBlock(nextId)>>, "clearAll")
             /\ nextId' = nextId + 1
             /\ activeBlockIndex' = 0
             /\ selection' = Null
    /\ UNCHANGED <<lastStringIndex, clipboard, dragStart, pending, exported>>

\* ------------------------------------------------------------------------
\* Text codec: export
\* ------------------------------------------------------------------------
\* A text is the sequence of its lines (what split('\n') gives); a line is a
\* string.  No label and no title holds a line break.
STRING_NAMES == <<"e", "B", "G", "D", "A", "E">>

Preamble ==
    <<"H", "u", "n", "t", "e", "r", " ", "T", "a", "b", " ", "M", "a", "k", "e", "r",
      " ", "-", " ", "C", "o", "m", "p", "o", "s", "i", "ç", "ã", "o">>

PartePrefix == <<"P", "a", "r", "t", "e">>

TituloPrefix == <<"T", "í", "t", "u", "l", "o", ":">>

\* String.prototype.padEnd(2, '-'): pads, never truncates.
padEnd2(s) == IF Len(s) >= 2 THEN s ELSE s \o [k \in 1..(2 - Len(s)) |-> "-"]

\* note ? note.fret.padEnd(2, '-') : '--'
exportCell(cell) == IF cell = NoNote THEN <<"-", "-">> ELSE padEnd2(cell[1])

\* The cells of string s over the columns; forEach skips empty slots.
RECURSIVE exportCells(_, _)
exportCells(cols, s) ==
    IF cols = <<>> THEN <<>>
    ELSE (IF Head(cols) = Hole THEN <<>> ELSE exportCell(Head(cols)[s]))
         \o exportCells(Tail(cols), s)

exportRow(block, s) == <<STRING_NAMES[s], " ", "|">> \o exportCells(block.columns, s)

exportBlock(block, bIdx) ==
    <<PartePrefix \o <<" ">> \o toString(bIdx + 1)>>
    \o (IF block.title # <<>> THEN <<TituloPrefix \o <<" ">> \o block.title>> ELSE <<>>)
    \o [s \in 1..NUM_STRINGS |-> exportRow(block, s)]
    \o << <<>> >>

RECURSIVE exportBlocks(_, _)
exportBlocks(bs, bIdx) ==
    IF bIdx >= Len(bs) THEN <<>>
    ELSE exportBlock(bs[bIdx + 1], bIdx) \o exportBlocks(bs, bIdx + 1)

\* The lines of the output string; the string ends with "\n", so the last
\* line is empty.
exportText(bs) == <<Preamble, <<>>>> \o exportBlocks(bs, 0) \o << <<>> >>

\* col[s] throws on an undefined column.
exportThrows(bs) == RenderThrows(bs)

exportTab ==
    /\ CanClick
    /\ IF exportThrows(blocks)
       THEN Tick("exportThrew") /\ UNCHANGED exported
       ELSE Tick("export") /\ exported' = Some(exportText(blocks))
    /\ UNCHANGED <<doc, stacks, dragStart, pending, nextId, crashed, ghost>>

\* ------------------------------------------------------------------------
\* Text codec: import
\* ------------------------------------------------------------------------
StartsWith(line, prefix) ==
    Len(line) >= Len(prefix) /\ SubSeq(line, 1, Len(prefix)) = prefix

\* Characters the regex "." does not match.
LineTerminators == {"\n", "\r"}

\* line.match(/^([eBGDAE])\s\|\s*(.*)$/): Null, or Some(<<letter, content>>).
\* The greedy \s* takes all the white space after the bar; giving some back
\* cannot make ".*" reach the end of a line that holds a terminator later.
matchRow(line) ==
    IF /\ Len(line) >= 3
       /\ \E n \in 1..NUM_STRINGS : STRING_NAMES[n] = line[1]
       /\ line[2] \in WhiteSpace
       /\ line[3] = "|"
    THEN LET content == SkipSpace(SubSeq(line, 4, Len(line)))
         IN  IF \E k \in 1..Len(content) : content[k] \in LineTerminators
             THEN Null
             ELSE Some(<<line[1], content>>)
    ELSE Null

\* STRING_NAMES.indexOf(letter), 0-based
indexOfString(letter) == (CHOOSE n \in 1..NUM_STRINGS : STRING_NAMES[n] = letter) - 1

\* s.replace(/-/g, '')
RECURSIVE removeDashes(_)
removeDashes(s) ==
    IF s = <<>> THEN <<>>
    ELSE (IF Head(s) = "-" THEN <<>> ELSE <<Head(s)>>) \o removeDashes(Tail(s))

\* tabContent.substring(c * 2, c * 2 + 2).trim().replace(/-/g, '') for 0-based c
chunkAt(tabContent, c) == removeDashes(Trim(SubSeq(tabContent, 2 * c + 1, 2 * c + 2)))

numColsOf(tabContent) == Len(tabContent) \div 2

\* currentPartCols[c][stringIdx] = ... throws when the row has a note at a
\* column the accumulator does not have.
rowThrows(cols, tabContent) ==
    \E c \in 0..(numColsOf(tabContent) - 1) :
        chunkAt(tabContent, c) # <<>> /\ c >= Len(cols)

rowApply(cols, tabContent, stringIdx) ==
    [k \in 1..Len(cols) |->
        IF k <= numColsOf(tabContent) /\ chunkAt(tabContent, k - 1) # <<>>
        THEN [cols[k] EXCEPT ![stringIdx + 1] = Note(chunkAt(tabContent, k - 1))]
        ELSE cols[k]]

\* The state of the parse loop: newBlocks, currentPartCols, currentTitle and
\* stringsFound.  A block pushed onto newBlocks holds the currentPartCols
\* array itself, not a copy: alias is its 1-based place in newBlocks while
\* currentPartCols is still that array, and 0 otherwise.
ParseStart ==
    [newBlocks |-> <<>>, cols |-> <<>>, alias |-> 0, title |-> <<>>, found |-> 0,
     threw |-> FALSE]

parseRow(ps, letter, tabContent, firstId) ==
    LET fresh == Len(ps.cols) = 0
        cols0 == IF fresh THEN [k \in 1..numColsOf(tabContent) |-> EmptyCol] ELSE ps.cols
        alias0 == IF fresh THEN 0 ELSE ps.alias
    IN  IF rowThrows(cols0, tabContent) THEN [ps EXCEPT !.threw = TRUE]
        ELSE LET cols1 == rowApply(cols0, tabContent, indexOfString(letter))
                 blocks1 == IF alias0 > 0
                            THEN [ps.newBlocks EXCEPT ![alias0].columns = cols1]
                            ELSE ps.newBlocks
                 found1 == ps.found + 1
                 pushed == [id |-> firstId + Len(blocks1), columns |-> cols1,
                            cursorPosition |-> 0, title |-> ps.title]
             IN  IF found1 = NUM_STRINGS
                 THEN [ps EXCEPT !.newBlocks = Append(blocks1, pushed), !.cols = cols1,
                                 !.alias = Len(blocks1) + 1, !.found = found1]
                 ELSE [ps EXCEPT !.newBlocks = blocks1, !.cols = cols1,
                                 !.alias = alias0, !.found = found1]

parseLine(ps, line, firstId) ==
    LET ps1 == IF StartsWith(line, PartePrefix)
               THEN [ps EXCEPT !.found = 0, !.cols = <<>>, !.alias = 0, !.title = <<>>]
               ELSE ps
        ps2 == IF StartsWith(line, TituloPrefix)
               THEN [ps1 EXCEPT !.title = Trim(SubSeq(line, Len(TituloPrefix) + 1, Len(line)))]
               ELSE ps1
        match == matchRow(line)
    IN  IF match = Null THEN ps2 ELSE parseRow(ps2, match[1][1], match[1][2], firstId)

RECURSIVE parseLines(_, _, _, _)
parseLines(ps, lines, i, firstId) ==
    IF i > Len(lines) \/ ps.threw THEN ps
    ELSE parseLines(parseLine(ps, lines[i], firstId), lines, i + 1, firstId)

\* The loop of reader.onload over content.split('\n').
parseText(lines, firstId) == parseLines(ParseStart, lines, 1, firstId)

\* ------------------------------------------------------------------------
\* Import handler
\* ------------------------------------------------------------------------
\* Files of the model besides the file the editor exported itself.
\* RaggedFile: the second row is longer than the first and has a note there.
RaggedFile ==
    << <<"e", " ", "|", "-", "-">>,
       <<"B", " ", "|", "-", "-", "3", "-">> >>

\* ShortFile: a part with a single string row.
ShortFile ==
    << PartePrefix \o <<" ", "1">>,
       <<"e", " ", "|", "3", "-">> >>

\* ValidFile: one part of one column with fret 3 on the first string,
\* written by another editor.
ValidFile ==
    << PartePrefix \o <<" ", "1">>,
       <<"e", " ", "|", "3", "-">>,
       <<"B", " ", "|", "-", "-">>,
       <<"G", " ", "|", "-", "-">>,
       <<"D", " ", "|", "-", "-">>,
       <<"A", " ", "|", "-", "-">>,
       <<"E", " ", "|", "-", "-">> >>

FileInputs ==
    {RaggedFile, ShortFile, ValidFile} \cup (IF exported = Null THEN {} ELSE {exported[1]})

\* TwoPartFile: two parts of one column, each under its own 'Parte' line,
\* the first with a title.
StringRows(fret) ==
    << <<"e", " ", "|", fret, "-">>,
       <<"B", " ", "|", "-", "-">>,
       <<"G", " ", "|", "-", "-">>,
       <<"D", " ", "|", "-", "-">>,
       <<"A", " ", "|", "-", "-">>,
       <<"E", " ", "|", "-", "-">> >>

TwoPartFile ==
    << PartePrefix \o <<" ", "1">>, TituloPrefix \o <<" ", "A">> >> \o StringRows("3")
    \o << <<>>, PartePrefix \o <<" ", "2">> >> \o StringRows("5")

\* RunOnFile: the same twelve string rows under a single 'Parte' line.
RunOnFile ==
    << PartePrefix \o <<" ", "1">>, TituloPrefix \o <<" ", "A">> >> \o StringRows("3")
    \o StringRows("5")

CodecFiles == {ValidFile, TwoPartFile, RunOnFile}

\* handleImport: the file is chosen and the read starts.  reader.onload is
\* created here, so the blocks it passes to saveState are those of this
\* render.  The model keeps one read in flight.
handleImportOf(files) ==
    /\ CanClick
    /\ pending = Null
    /\ \E text \in files : pending' = Some([snap |-> blocks, text |-> text])
    /\ Tick("importStart")
    /\ UNCHANGED <<doc, stacks, dragStart, exported, nextId, crashed, ghost>>

handleImport == handleImportOf(FileInputs)

\* The same handler on the files of several parts.
ImportCodecFile == handleImportOf(CodecFiles)

\* reader.onload that records the snapshot before it looks at the result.
readerOnloadSavesFirst ==
    /\ CanRun
    /\ pending # Null
    /\ pending' = Null
    /\ LET ps == parseText(pending[1].text, nextId)
       IN  IF ps.threw
           THEN /\ Tick("importThrew")
                /\ UNCHANGED <<blocks, activeBlockIndex, stacks, nextId, crashed, ghost>>
           ELSE IF Len(ps.newBlocks) > 0
           THEN /\ Tick("import")
                /\ history' = saveState(history, pending[1].snap)
                /\ redoStack' = <<>>
                /\ blocks' = ps.newBlocks
                /\ activeBlockIndex' = 0
                /\ nextId' = nextId + Len(ps.newBlocks)
                /\ crashed' = RenderThrows(blocks')
                /\ LogEdit(TRUE)
           ELSE /\ Tick("importInvalid")
                /\ history' = saveState(history, pending[1].snap)
                /\ redoStack' = <<>>
                /\ UNCHANGED <<blocks, activeBlockIndex, nextId, crashed, ghost>>
    /\ UNCHANGED <<lastStringIndex, selection, clipboard, dragStart, exported>>

\* reader.onload: the read completes.  An exception thrown by the loop
\* leaves the handler before any state is set.
readerOnload ==
    /\ CanRun
    /\ pending # Null
    /\ pending' = Null
    /\ LET ps == parseText(pending[1].text, nextId)
       IN  IF ps.threw
           THEN /\ Tick("importThrew")
                /\ UNCHANGED <<blocks, activeBlockIndex, stacks, nextId, crashed, ghost>>
           ELSE IF Len(ps.newBlocks) > 0
           THEN /\ Tick("import")
                /\ history' = saveState(history, pending[1].snap)
                /\ redoStack' = <<>>
                /\ blocks' = ps.newBlocks
                /\ activeBlockIndex' = 0
                /\ nextId' = nextId + Len(ps.newBlocks)
                /\ crashed' = RenderThrows(blocks')
                /\ LogEdit(TRUE)
           ELSE /\ Tick("importInvalid")
                /\ UNCHANGED <<blocks, activeBlockIndex, stacks, nextId, crashed, ghost>>
    /\ UNCHANGED <<lastStringIndex, selection, clipboard, dragStart, exported>>

\* ------------------------------------------------------------------------
\* Grid mouse handlers (TabEditor)
\* ------------------------------------------------------------------------
\* The column indices (0-based) TabEditor renders cells for: map skips the
\* empty slots.
RenderedCols(block) == {c \in 0..(Len(block.columns) - 1) : block.columns[c + 1] # Hole}

BlockWithId(id) == {i \in 1..Len(blocks) : blocks[i].id = id}

\* handleMouseDown(cIdx, sIdx) in the editor of block index:
\*   setDragStart(cIdx)
\*   onCursorMove(cIdx): setActiveBlockIndex(index), then updateActiveBlock
\*     with the activeBlockIndex of the current render
\*   onStringSelect(sIdx); onSelectionChange(null)
\* App.tsx passes no onStringSelect.  wired = FALSE: the call throws and the
\* handler ends there; wired = TRUE: it is App's setLastStringIndex.
handleMouseDown(index, cIdx, sIdx, wired) ==
    /\ CanClick
    /\ dragStart' = Some(<<blocks[index + 1].id, cIdx>>)
    /\ activeBlockIndex' = index
    /\ LET b == ActiveBlock IN updateActiveBlock([b EXCEPT !.cursorPosition = cIdx], FALSE,
                         "mouseDown")
    /\ lastStringIndex' = IF wired THEN sIdx ELSE lastStringIndex
    /\ selection' = IF wired THEN Null ELSE selection
    /\ UNCHANGED <<clipboard, pending, exported, nextId>>

MouseDown ==
    \E index \in 0..(Len(blocks) - 1) :
        \E cIdx \in RenderedCols(blocks[index + 1]), sIdx \in StringInputs,
           wired \in BOOLEAN :
            handleMouseDown(index, cIdx, sIdx, wired)

\* handleMouseEnter(idx) in the editor that holds the drag.
handleMouseEnter ==
    /\ ~crashed
    /\ dragStart # Null
    /\ \E i \in BlockWithId(dragStart[1][1]) : \E idx \in RenderedCols(blocks[i]) :
           selection' = Some(<<Min(dragStart[1][2], idx), Max(dragStart[1][2], idx)>>)
    /\ op' = "mouseEnter"
    /\ UNCHANGED <<blocks, activeBlockIndex, lastStringIndex, clipboard, stacks, env,
                   crashed, budget, ghost>>

\* handleMouseUp (onMouseUp, onMouseLeave)
handleMouseUp ==
    /\ ~crashed
    /\ dragStart # Null
    /\ dragStart' = Null
    /\ op' = "mouseUp"
    /\ UNCHANGED <<doc, stacks, pending, exported, nextId, crashed, budget, ghost>>

Next ==
    \/ handleUndo
    \/ handleRedo
    \/ CursorLeft
    \/ CursorRight
    \/ FretClick
    \/ SymbolClick
    \/ ClearNote
    \/ Transpose
    \/ insertBarLine
    \/ insertSpace
    \/ handleCopy
    \/ handleCut
    \/ handlePaste
    \/ TitleChange
    \/ SelectBlock
    \/ addBlockBelow
    \/ DuplicateBlock
    \/ MoveBlock
    \/ removeSelectedBlock
    \/ handleClearAll
    \/ exportTab
    \/ handleImport
    \/ readerOnload
    \/ MouseDown
    \/ handleMouseEnter
    \/ handleMouseUp

Spec == Init /\ [][Next]_vars

\* The document operations, with undo and redo, explored deeper.
InitDoc == InitWith(MaxDocOps)

NextDoc ==
    \/ handleUndo
    \/ handleRedo
    \/ SelectBlock
    \/ addBlockBelow
    \/ DuplicateBlock
    \/ MoveBlock
    \/ removeSelectedBlock
    \/ handleClearAll
    \/ handleImport
    \/ readerOnload

SpecDoc == InitDoc /\ [][NextDoc]_vars

\* A long run of recorded edits (the cursor-right button), undo and redo.
InitHistory == InitWith(MaxHistOps)

NextHistory ==
    \/ CursorRight
    \/ handleUndo
    \/ handleRedo

SpecHistory == InitHistory /\ [][NextHistory]_vars

\* Digit entry through addNote with cursor moves.
InitInput == InitWith(MaxInputOps)

NextInput == DigitEntry \/ CursorLeft \/ CursorRight

SpecInput == InitInput /\ [][NextInput]_vars

\* Selection and clipboard: drag-selection, copy, cut, paste, an edit of the
\* cell under the cursor, and undo.
InitClip == InitWith(MaxClipOps)

NextClip ==
    \/ MouseDown
    \/ handleMouseEnter
    \/ handleMouseUp
    \/ handleCopy
    \/ handleCut
    \/ handlePaste
    \/ ClearNote
    \/ handleUndo

SpecClip == InitClip /\ [][NextClip]_vars

\* Selection against the shape of the document: drag-selection and cut with
\* the operations that change the active block or its number of columns.
InitSel == InitWith(MaxSelOps)

NextSel ==
    \/ MouseDown
    \/ handleMouseEnter
    \/ handleMouseUp
    \/ handleCut
    \/ insertSpace
    \/ SelectBlock
    \/ addBlockBelow
    \/ removeSelectedBlock
    \/ handleUndo
    \/ handleRedo
    \/ handleImport
    \/ readerOnload

SpecSel == InitSel /\ [][NextSel]_vars

\* Import of files of several parts into an edited document.
InitImport == InitWith(MaxImportOps)

NextImport ==
    \/ ImportCodecFile
    \/ readerOnload
    \/ TitleChange
    \/ FretClick
    \/ handleUndo

SpecImport == InitImport /\ [][NextImport]_vars

\* The block list: blocks with titles and bar lines that are selected,
\* added, duplicated, moved, removed and cleared, and undo.
InitBlocks == InitWith(MaxBlockOps)

NextBlocks ==
    \/ TitleChange
    \/ insertBarLine
    \/ SelectBlock
    \/ addBlockBelow
    \/ DuplicateBlock
    \/ MoveBlock
    \/ removeSelectedBlock
    \/ handleClearAll
    \/ handleUndo

SpecBlocks == InitBlocks /\ [][NextBlocks]_vars

\* Removal against the history: blocks are added, selected and removed, and
\* the changes are undone and redone.
InitRemove == InitWith(MaxRemoveOps)

NextRemove ==
    \/ addBlockBelow
    \/ SelectBlock
    \/ removeSelectedBlock
    \/ handleUndo
    \/ handleRedo

SpecRemove == InitRemove /\ [][NextRemove]_vars

\* Titles through the text codec: titles are typed and padded by clicks,
\* the document is exported and the exported file is imported.
InitTitle == InitWith(MaxTitleOps)

NextTitle ==
    \/ TitleChange
    \/ TitleClick
    \/ exportTab
    \/ handleImport
    \/ readerOnload

SpecTitle == InitTitle /\ [][NextTitle]_vars

\* ------------------------------------------------------------------------
\* Claims
\* ------------------------------------------------------------------------
\* The last n logged edits all changed the blocks.
AllChanged(n) ==
    n <= Len(log) /\ \A i \in (Len(log) - n + 1)..Len(log) : log[i].chg

\* C1: undo/redo inverse.  After N operations that change the blocks
\* (1 <= N <= HISTORY_LIMIT), N undos make the blocks equal to the value
\* before the first of them, and N redos after that make them equal to the
\* value before the first undo.
C1_UndoRedoInverse ==
    (undos >= 1 /\ undos <= HISTORY_LIMIT /\ AllChanged(undos)) =>
        /\ redos = 0 => blocks = log[Len(log) - undos + 1].pre
        /\ redos = undos => blocks = top

\* C2: every operation that changes the blocks pushes the blocks held just
\* before the change onto the undo stack and empties the redo stack; the
\* redo stack gains entries only through undo.
C2_EveryChangeRecorded ==
    [][/\ (blocks' # blocks /\ op' \notin {"undo", "redo"}) =>
              (history' = saveState(history, blocks) /\ redoStack' = <<>>)
       /\ (Len(redoStack') > Len(redoStack) => op' = "undo")]_vars

\* The pre-mutation snapshots of the recorded mutations of the current run.
RecLog == SelectSeq(log, LAMBDA e : e.rec)

C4_ActiveIndexValid == activeBlockIndex >= 0 /\ activeBlockIndex < Len(blocks)

IsDigit(ch) == DigitVal(ch, 10) >= 0

\* Every column is present and every label is one character or two digits.
ShortLabels(bs) ==
    \A i \in 1..Len(bs) : \A c \in 1..Len(bs[i].columns) :
        /\ IsCol(bs[i].columns[c])
        /\ \A s \in 1..NUM_STRINGS :
               LET cell == bs[i].columns[c][s]
               IN  cell # NoNote =>
                       \/ Len(cell[1]) = 1
                       \/ Len(cell[1]) = 2 /\ IsDigit(cell[1][1]) /\ IsDigit(cell[1][2])

SameGrid(as, bs) ==
    /\ Len(as) = Len(bs)
    /\ \A i \in 1..Len(as) : as[i].columns = bs[i].columns

\* C5: round trip.  For a document whose labels are single characters or
\* digit pairs, importing the exported text gives the same number of
\* blocks, the same column counts and the same cell at every coordinate.
C5_RoundTrip ==
    ShortLabels(blocks) =>
        LET ps == parseText(exportText(blocks), nextId)
        IN  ~ps.threw /\ SameGrid(ps.newBlocks, blocks)

\* C6: the snapshot a successful import pushes is the blocks value current
\* when the imported blocks replace the document.
C6_ImportSnapshotExact ==
    [][op' = "import" =>
           /\ Len(history') > 0
           /\ Last(history') = JSONStringify(blocks)]_vars

RemoveOps == {"removeRejected", "removeCancelled", "removeBlock"}

\* C7: the document always holds at least one block, and remove-block on a
\* document of exactly one block changes neither the blocks, the active
\* index, nor the stacks.
C7_AtLeastOneBlock ==
    /\ [](Len(blocks) >= 1)
    /\ [][(Len(blocks) = 1 /\ op' \in RemoveOps) =>
              UNCHANGED <<blocks, activeBlockIndex, history, redoStack>>]_vars

\* Remove-block was invoked on a document of one block.
C7_Witness == op = "removeRejected" /\ Len(blocks) = 1

\* C8: import never throws, whatever the text.
C8_ImportNeverThrows == op # "importThrew"

\* The read in flight yields no complete block.
ParsesZeroBlocks == Len(parseText(pending[1].text, nextId).newBlocks) = 0

\* C9: an import that parses zero complete blocks leaves blocks, active
\* index, undo stack and redo stack as they were.
C9_InvalidImportNoChange ==
    [][(pending # Null /\ pending' = Null /\ ParsesZeroBlocks) =>
           UNCHANGED <<blocks, activeBlockIndex, history, redoStack>>]_vars

\* A read completed with zero complete blocks and was reported invalid.
C9_Witness == op = "importInvalid" /\ pending = Null

\* Some integer-labelled cell of some block would go below zero.
WouldGoNegative(bs, delta) ==
    \E i \in 1..Len(bs) : \E c \in 1..Len(bs[i].columns) :
        /\ IsCol(bs[i].columns[c])
        /\ \E s \in 1..NUM_STRINGS :
               /\ IsNumeric(bs[i].columns[c][s])
               /\ FretOf(bs[i].columns[c][s]) + delta < 0

NoNegativeLabel == ~WouldGoNegative(blocks, 0)

TransposeOps(delta) ==
    IF delta > 0 THEN {"transposeUp", "transposeUpRejected"}
    ELSE {"transposeDown", "transposeDownRejected"}

\* C10: transpose(delta) changes nothing (blocks, undo stack, redo stack)
\* when some integer label plus delta would be negative, and no reachable
\* state holds a negative integer label.
C10_TransposeRejection ==
    /\ []NoNegativeLabel
    /\ [][\A delta \in {1, -1} :
              (op' \in TransposeOps(delta) /\ WouldGoNegative(blocks, delta)) =>
                  UNCHANGED <<blocks, history, redoStack>>]_vars

\* A transpose down was rejected on a document holding an open string next
\* to a fretted note, and the fretted note kept its fret.
C10_Witness ==
    /\ op = "transposeDownRejected"
    /\ WouldGoNegative(blocks, -1)
    /\ \E c \in 1..Len(blocks[1].columns) : \E s \in 1..NUM_STRINGS :
           /\ IsCol(blocks[1].columns[c])
           /\ IsNumeric(blocks[1].columns[c][s])
           /\ FretOf(blocks[1].columns[c][s]) = 12

\* The label is a non-negative integer in decimal text.
IsIntegerLabel(cell) ==
    cell # NoNote /\ Len(cell[1]) > 0 /\ \A k \in 1..Len(cell[1]) : IsDigit(cell[1][k])

RECURSIVE DecimalValue(_)
DecimalValue(str) ==
    IF str = <<>> THEN 0
    ELSE 10 * DecimalValue(ButLast(str)) + DigitVal(Last(str), 10)

\* The cell an accepted transpose by delta must leave in place of cell.
ShiftedCell(cell, delta) ==
    IF IsIntegerLabel(cell) THEN Note(toString(DecimalValue(cell[1]) + delta)) ELSE cell

AcceptedDelta(name) == IF name = "transposeUp" THEN 1 ELSE -1

HasIntegerLabel(b) ==
    \E c \in 1..Len(b.columns) :
        IsCol(b.columns[c]) /\ \E s \in 1..NUM_STRINGS : IsIntegerLabel(b.columns[c][s])

C11_WitnessSymbol ==
    /\ op \in {"transposeUp", "transposeDown"}
    /\ HasIntegerLabel(blocks[1])
    /\ \E c \in 1..Len(blocks[1].columns) :
           IsCol(blocks[1].columns[c]) /\ \E s \in 1..NUM_STRINGS :
               blocks[1].columns[c][s] = Note(<<"h">>)

DigitOf(name) == IF name = "digit2" THEN "2" ELSE IF name = "digit4" THEN "4" ELSE "5"

\* The label incremental entry of digit d must leave in a cell holding the
\* integer label str: the concatenation when it is at most 24, else d.
Combined(str, d) ==
    IF DecimalValue(Append(str, d)) <= 24 THEN Append(str, d) ELSE <<d>>

\* The cell under the cursor of the active block on string s, when present.
HasTarget(s) ==
    /\ activeBlockIndex < Len(blocks)
    /\ ActiveBlock.cursorPosition < Len(ActiveBlock.columns)
    /\ IsCol(ActiveBlock.columns[ActiveBlock.cursorPosition + 1])

TargetCell(s) == ActiveBlock.columns[ActiveBlock.cursorPosition + 1][s + 1]

\* C12: digit 4 entered on a cell holding "2" leaves the cell with "24" (the
\* concatenation is at most 24), and digit 5 entered on a cell holding "2"
\* leaves it with "5" (the concatenation would exceed 24).
C12_NoteCombination ==
    [][(/\ op' \in {"digit4", "digit5"}
        /\ HasTarget(lastStringIndex')
        /\ TargetCell(lastStringIndex') = Note(<<"2">>)) =>
            blocks'[activeBlockIndex + 1].columns[ActiveBlock.cursorPosition + 1]
                                                 [lastStringIndex' + 1]
                = Note(Combined(<<"2">>, DigitOf(op')))]_vars

ColumnRange(cols, s, e) == [k \in 1..(e - s + 1) |-> cols[s + k]]

\* C14: cut with selection [s, e] puts the active block's columns s..e on
\* the clipboard, makes each of them an all-empty column, keeps the number
\* of columns and leaves the columns outside s..e as they were.
C14_CutClearsRange ==
    [][op' = "cut" =>
          LET s == selection[1][1]
              e == selection[1][2]
              cols == ActiveBlock.columns
              after == blocks'[activeBlockIndex + 1].columns
          IN  /\ Len(after) = Len(cols)
              /\ e < Len(cols)
              /\ clipboard' = Some(ColumnRange(cols, s, e))
              /\ \A c \in 1..Len(cols) :
                     after[c] = IF c - 1 \in s..e THEN EmptyCol ELSE cols[c]]_vars

\* C15: undo with an empty undo stack and redo with an empty redo stack
\* change neither the blocks, the active block index, the undo stack nor the
\* redo stack, and the editor stays up.
C15_UndoRedoPastBounds ==
    [][((op' = "undo" /\ history = <<>>) \/ (op' = "redo" /\ redoStack = <<>>)) =>
          /\ UNCHANGED <<blocks, activeBlockIndex, history, redoStack>>
          /\ ~crashed']_vars

\* Undo ran on an edited document whose undo stack was empty.
C15_Witness ==
    /\ op = "undo"
    /\ history = <<>>
    /\ redoStack = <<>>
    /\ blocks # <<NewBlock(1)>>

\* The number of blocks a text commits when the row counter restarts at every
\* 'Parte' line and after every sixth string row.
RECURSIVE CountCommits(_, _, _)
CountCommits(lines, i, found) ==
    IF i > Len(lines) THEN 0
    ELSE LET f0 == IF StartsWith(lines[i], PartePrefix) THEN 0 ELSE found
             f1 == IF matchRow(lines[i]) # Null THEN f0 + 1 ELSE f0
         IN  IF f1 = NUM_STRINGS THEN 1 + CountCommits(lines, i + 1, 0)
             ELSE CountCommits(lines, i + 1, f1)

\* The line (1-based) whose string row completes the first block; 0 if none.
RECURSIVE FirstCommitAt(_, _, _)
FirstCommitAt(lines, i, found) ==
    IF i > Len(lines) THEN 0
    ELSE LET f0 == IF StartsWith(lines[i], PartePrefix) THEN 0 ELSE found
             f1 == IF matchRow(lines[i]) # Null THEN f0 + 1 ELSE f0
         IN  IF f1 = NUM_STRINGS THEN i ELSE FirstCommitAt(lines, i + 1, f1)

\* C16: an import installs one block for every six string rows consumed
\* (string rows after a committed block start a new block, with or without a
\* 'Parte' line), and the first block installed is the block as it was
\* committed: the rows that follow it do not change its cells or its title.
C16_ImportBlockCommit ==
    [][op' = "import" =>
          LET text == pending[1].text
              n == FirstCommitAt(text, 1, 0)
              first == parseText(SubSeq(text, 1, n), nextId).newBlocks[1]
          IN  /\ Len(blocks') = CountCommits(text, 1, 0)
              /\ blocks'[1].columns = first.columns
              /\ blocks'[1].title = first.title]_vars

\* C17: every column of every block is present and has exactly 6 cells, each
\* empty or a Note.
C17_ColumnsWellFormed ==
    \A i \in 1..Len(blocks) : \A c \in 1..Len(blocks[i].columns) :
        /\ blocks[i].columns[c] # Hole
        /\ blocks[i].columns[c] # NullCol
        /\ Len(blocks[i].columns[c]) = NUM_STRINGS
        /\ \A s \in 1..NUM_STRINGS :
               blocks[i].columns[c][s] = NoNote \/ Len(blocks[i].columns[c][s]) = 1

\* C18: the cursor of every block is between 0 and the number of columns of
\* the block (at most one past the end).
C18_CursorInRange ==
    \A i \in 1..Len(blocks) :
        blocks[i].cursorPosition >= 0 /\ blocks[i].cursorPosition <= Len(blocks[i].columns)

\* C19: the selection is null or a pair [start, end] with
\* 0 <= start <= end < number of columns of the active block.
C19_SelectionInRange ==
    selection # Null =>
        /\ 0 <= selection[1][1]
        /\ selection[1][1] <= selection[1][2]
        /\ activeBlockIndex < Len(blocks) => selection[1][2] < Len(ActiveBlock.columns)

NoteOps == {"fretClick", "symbolClick", "clearNote"}

\* The labels the note-entry handler of that name writes.
LabelsOf(name) ==
    IF name = "fretClick" THEN {toString(f) : f \in FretInputs}
    ELSE IF name = "symbolClick" THEN SymbolInputs
    ELSE {<<"-">>}

\* C20: addNote on the active block with the cursor at c (at most one past
\* the end) writes a Note with the given label at (c, string) and leaves
\* every other cell and every other block as they were; the block gains
\* exactly one column when c >= its column count and none otherwise; a
\* fretboard click and a technique button advance the cursor by exactly 1.
C20_InsertNote ==
    [][(/\ op' \in NoteOps
        /\ activeBlockIndex < Len(blocks)
        /\ ActiveBlock.cursorPosition <= Len(ActiveBlock.columns)
        /\ \A k \in 1..Len(ActiveBlock.columns) : IsCol(ActiveBlock.columns[k])) =>
          LET a == activeBlockIndex + 1
              c == ActiveBlock.cursorPosition
              s == lastStringIndex'
              before == ActiveBlock.columns
              after == blocks'[a].columns
          IN  /\ ~crashed'
              /\ Len(blocks') = Len(blocks)
              /\ \A i \in 1..Len(blocks) : i # a => blocks'[i] = blocks[i]
              /\ c < Len(after)
              /\ after[c + 1][s + 1] \in {Note(l) : l \in LabelsOf(op')}
              /\ \A k \in 1..Len(before) : \A r \in 1..NUM_STRINGS :
                     (k # c + 1 \/ r # s + 1) => after[k][r] = before[k][r]
              /\ blocks'[a].cursorPosition = IF op' = "clearNote" THEN c ELSE c + 1
              /\ Len(after) = IF c >= Len(before) THEN Len(before) + 1 ELSE Len(before)]_vars

\* C21: 'Limpar Nota' with the cursor at c (inside the block) leaves the cell
\* at (c, last selected string) of the active block empty and keeps the
\* column count, every other cell, the cursor and every other block.
C21_DeleteNote ==
    [][(/\ op' = "clearNote"
        /\ activeBlockIndex < Len(blocks)
        /\ ActiveBlock.cursorPosition < Len(ActiveBlock.columns)
        /\ \A k \in 1..Len(ActiveBlock.columns) : IsCol(ActiveBlock.columns[k])) =>
          LET a == activeBlockIndex + 1
              c == ActiveBlock.cursorPosition
              s == lastStringIndex
              before == ActiveBlock.columns
              after == blocks'[a].columns
          IN  /\ ~crashed'
              /\ \A i \in 1..Len(blocks) : i # a => blocks'[i] = blocks[i]
              /\ blocks'[a].cursorPosition = c
              /\ \A k \in 1..Len(before) : \A r \in 1..NUM_STRINGS :
                     (k # c + 1 \/ r # s + 1) => after[k][r] = before[k][r]
              /\ after[c + 1][s + 1] = NoNote
              /\ Len(after) = Len(before)]_vars

\* C22: paste with a clipboard of n > 0 columns and the cursor at c, at most
\* the column count, puts the clipboard columns at positions c..c+n-1 of the
\* active block, keeps the columns before c, moves the columns formerly at
\* c and after right by n, and sets the cursor to c + n; paste with no
\* clipboard changes nothing, the undo and redo stacks included.
C22_Paste ==
    [][/\ (/\ op' = "paste"
           /\ clipboard # Null
           /\ Len(clipboard[1]) > 0
           /\ activeBlockIndex < Len(blocks)
           /\ ActiveBlock.cursorPosition <= Len(ActiveBlock.columns)) =>
             LET a == activeBlockIndex + 1
                 c == ActiveBlock.cursorPosition
                 n == Len(clipboard[1])
                 before == ActiveBlock.columns
                 after == blocks'[a].columns
             IN  /\ ~crashed'
                 /\ Len(after) = Len(before) + n
                 /\ \A k \in 1..c : after[k] = before[k]
                 /\ \A j \in 1..n : after[c + j] = clipboard[1][j]
                 /\ \A k \in (c + 1)..Len(before) : after[k + n] = before[k]
                 /\ blocks'[a].cursorPosition = c + n
                 /\ blocks'[a].id = blocks[a].id
                 /\ blocks'[a].title = blocks[a].title
                 /\ \A i \in 1..Len(blocks) : i # a => blocks'[i] = blocks[i]
       /\ (op' = "pasteNoClipboard" /\ clipboard = Null) =>
             /\ ~crashed'
             /\ UNCHANGED <<blocks, activeBlockIndex, lastStringIndex, selection,
                            clipboard, history, redoStack>>]_vars

\* C22 witness: a clipboard of at least one column has been pasted behind
\* at least one column and in front of at least one column.
C22_Witness ==
    /\ op = "paste"
    /\ clipboard # Null
    /\ Len(clipboard[1]) > 0
    /\ ActiveBlock.cursorPosition > Len(clipboard[1])
    /\ ActiveBlock.cursorPosition < Len(ActiveBlock.columns)

\* C23: insert space adds exactly one all-empty column to the active block,
\* at the selection start when a selection exists and otherwise at the
\* cursor; the columns before that position stay, the columns from it on
\* move right by one; the cursor advances by 1 without a selection and stays
\* with one.
C23_InsertSpace ==
    [][(op' = "insertSpace" /\ activeBlockIndex < Len(blocks)) =>
          LET a == activeBlockIndex + 1
              c == ActiveBlock.cursorPosition
              pos == IF selection # Null THEN selection[1][1] ELSE c
              before == ActiveBlock.columns
              after == blocks'[a].columns
          IN  /\ ~crashed'
              /\ Len(after) = Len(before) + 1
              /\ blocks'[a].cursorPosition = IF selection # Null THEN c ELSE c + 1
              /\ pos <= Len(before)
              /\ after[pos + 1] = EmptyCol
              /\ \A k \in 1..pos : after[k] = before[k]
              /\ \A k \in (pos + 1)..Len(before) : after[k + 1] = before[k]
              /\ \A i \in 1..Len(blocks) : i # a => blocks'[i] = blocks[i]]_vars

\* C24: duplicating the block at index puts directly after it a block with
\* an id no existing block has, the columns of the source, and the source
\* title followed by the copy marker (empty when the source title is
\* empty); the copy is the active block and every other block keeps its
\* content and its place in the order.
C24_Duplicate ==
    [][op' = "duplicateBlock" =>
          LET i == activeBlockIndex'
              source == blocks[i]
              copy == blocks'[i + 1]
          IN  /\ i \in 1..Len(blocks)
              /\ Len(blocks') = Len(blocks) + 1
              /\ \A k \in 1..Len(blocks) : copy.id # blocks[k].id
              /\ copy.columns = source.columns
              /\ copy.title = IF source.title # <<>> THEN source.title \o CopySuffix
                              ELSE <<>>
              /\ \A k \in 1..i : blocks'[k] = blocks[k]
              /\ \A k \in (i + 1)..Len(blocks) : blocks'[k + 1] = blocks[k]]_vars

\* C24 witness: a titled block that is followed by another block has been
\* duplicated; the copy carries the title with the copy marker.
C24_Witness ==
    /\ op = "duplicateBlock"
    /\ activeBlockIndex >= 1
    /\ activeBlockIndex + 1 < Len(blocks)
    /\ blocks[activeBlockIndex].title # <<>>
    /\ blocks[activeBlockIndex + 1].title = blocks[activeBlockIndex].title \o CopySuffix

\* C25: moving a block up or down swaps it with its neighbour in that
\* direction and makes it the active block at its new position; a move up
\* of the first block or down of the last block changes nothing, the undo
\* and redo stacks included.
C25_Move ==
    [][/\ op' \in {"moveBlockUp", "moveBlockDown"} =>
             LET to == activeBlockIndex' + 1
                 from == IF op' = "moveBlockUp" THEN to + 1 ELSE to - 1
             IN  /\ from \in 1..Len(blocks)
                 /\ to \in 1..Len(blocks)
                 /\ blocks' = [blocks EXCEPT ![to] = blocks[from], ![from] = blocks[to]]
       /\ op' \in {"moveBlockUpBoundary", "moveBlockDownBoundary"} =>
             UNCHANGED <<blocks, activeBlockIndex, history, redoStack, selection,
                         clipboard, lastStringIndex>>]_vars

\* C25 witness: a block that was not the active one has been moved down and
\* is the active block at its new position (the snapshot on top of the undo
\* stack holds it one place higher).
C25_Witness ==
    /\ op = "moveBlockDown"
    /\ Len(blocks) >= 3
    /\ activeBlockIndex >= 1
    /\ Len(history) > 0
    /\ Len(JSONParse(Last(history))) = Len(blocks)
    /\ JSONParse(Last(history))[activeBlockIndex].id = blocks[activeBlockIndex + 1].id
    /\ JSONParse(Last(history))[activeBlockIndex + 1].id = blocks[activeBlockIndex].id

\* C26: a confirmed remove on a document of more than one block removes
\* exactly the block at the active index, keeps the other blocks in order,
\* and sets the active index to max(0, removed index - 1).
C26_RemoveActive ==
    [][(op' = "removeBlock" /\ Len(blocks) > 1) =>
          LET r == activeBlockIndex
          IN  /\ activeBlockIndex' = Max(0, r - 1)
              /\ Len(blocks') = Len(blocks) - 1
              /\ \A k \in 1..Len(blocks') :
                     blocks'[k] = IF k <= r THEN blocks[k] ELSE blocks[k + 1]]_vars

\* C27: right after a confirmed clear-all the document is exactly one block
\* with an empty title, the default number of columns, all of them empty,
\* and cursor 0; the active block index is 0 and there is no selection.
C27_ClearAll ==
    op = "clearAll" =>
        /\ Len(blocks) = 1
        /\ blocks[1].title = <<>>
        /\ blocks[1].columns = [c \in 1..INITIAL_COLS |-> EmptyCol]
        /\ blocks[1].cursorPosition = 0
        /\ activeBlockIndex = 0
        /\ selection = Null
        /\ ~crashed

\* C27 witness: a document of two blocks, the second one active, has been
\* cleared.
C27_Witness ==
    /\ op = "clearAll"
    /\ Len(history) > 0
    /\ Len(JSONParse(Last(history))) = 2
    /\ Len(blocks) = 1

\* C28: in every reachable state the undo stack and the redo stack hold at
\* most HISTORY_LIMIT snapshots each, and at most HISTORY_LIMIT together.
C28_StacksBounded ==
    /\ Len(history) <= HISTORY_LIMIT
    /\ Len(redoStack) <= HISTORY_LIMIT
    /\ Len(history) + Len(redoStack) <= HISTORY_LIMIT

\* C28 witness: a redo has pushed onto a full-but-one undo stack, which now
\* holds HISTORY_LIMIT snapshots.
C28_Witness ==
    /\ op = "redo"
    /\ redos > 0
    /\ Len(history) = HISTORY_LIMIT

\* C29: a mouse press on a cell of column c in the grid of block i makes
\* block i the active block and sets its cursor to c; the columns of block i
\* and every other block stay as they were, whether or not block i was the
\* active block before.
C29_CellClick ==
    [][(op' = "mouseDown" /\ activeBlockIndex < Len(blocks)) =>
          LET i == activeBlockIndex' + 1
              c == dragStart'[1][2]
          IN  /\ i \in 1..Len(blocks)
              /\ dragStart'[1][1] = blocks[i].id
              /\ ~crashed'
              /\ Len(blocks') = Len(blocks)
              /\ blocks'[i].columns = blocks[i].columns
              /\ \A k \in 1..Len(blocks) : k # i => blocks'[k] = blocks[k]
              /\ blocks'[i].cursorPosition = c]_vars

\* C30: importing the file the editor exported from the current document
\* gives a document with the same number of blocks in which every block has
\* exactly the title it had, spaces at either end included.
C30_TitleRoundTrip ==
    [][(/\ op' = "import"
        /\ pending # Null
        /\ pending[1].text = exportText(blocks)) =>
          /\ Len(blocks') = Len(blocks)
          /\ \A i \in 1..Len(blocks) : blocks'[i].title = blocks[i].title]_vars

====
